---------------------------- MODULE Spec2Model ----------------------------
(***************************************************************************)
(* Model of the Streamlit fake-news detector (src/fkn.py).                 *)
(*                                                                         *)
(* A Python str is a sequence of one-character strings.  A Python scalar   *)
(* is a tagged record [t, s, n]; a Python dict is a sequence of            *)
(* <<key, value>> pairs in insertion order; a Python list is a sequence.   *)
(* One action is one user interaction, that is one complete run of the     *)
(* script (sidebar, then the current page).  A widget keeps its value      *)
(* while consecutive runs draw it and starts afresh otherwise.  The theme  *)
(* toggle and the download buttons change nothing the pages read and are   *)
(* left out.                                                               *)
(***************************************************************************)
EXTENDS Integers, Sequences, FiniteSets, TLC

(***************************************************************************)
(* Bounds of the model.                                                    *)
(***************************************************************************)
MaxHistory == 2
MaxClock == 1

(***************************************************************************)
(* String literals of the source.                                          *)
(***************************************************************************)
K_verdict == <<"v", "e", "r", "d", "i", "c", "t">>
K_reason == <<"r", "e", "a", "s", "o", "n">>
K_credibility_score == <<"c", "r", "e", "d", "i", "b", "i", "l", "i", "t", "y", "_", "s", "c", "o", "r", "e">>
K_error == <<"e", "r", "r", "o", "r">>
K_raw == <<"r", "a", "w">>
K_text == <<"t", "e", "x", "t">>
K_full_text == <<"f", "u", "l", "l", "_", "t", "e", "x", "t">>
K_score == <<"s", "c", "o", "r", "e">>
K_timestamp == <<"t", "i", "m", "e", "s", "t", "a", "m", "p">>
K_language == <<"l", "a", "n", "g", "u", "a", "g", "e">>
K_model == <<"m", "o", "d", "e", "l">>
S_GeminiFlash == <<"G", "e", "m", "i", "n", "i", " ", "1", ".", "5", " ", "F", "l", "a", "s", "h">>
S_English == <<"E", "n", "g", "l", "i", "s", "h">>
S_Hindi == <<"H", "i", "n", "d", "i">>
S_All == <<"A", "l", "l">>
S_Fake == <<"F", "a", "k", "e">>
S_Real == <<"R", "e", "a", "l">>
S_Uncertain == <<"U", "n", "c", "e", "r", "t", "a", "i", "n">>
S_fake == <<"f", "a", "k", "e">>
S_real == <<"r", "e", "a", "l">>
S_Error == <<"E", "r", "r", "o", "r">>
S_Ellipsis == <<".", ".", ".">>
S_NoApiKey == <<"A", "P", "I", " ", "k", "e", "y", " ", "n", "o", "t", " ", "c", "o", "n", "f", "i", "g", "u", "r", "e", "d">>
S_InvalidFormat == <<"I", "n", "v", "a", "l", "i", "d", " ", "r", "e", "s", "p", "o", "n", "s", "e", " ", "f", "o", "r", "m", "a", "t">>
S_AnalysisFailed == <<"A", "n", "a", "l", "y", "s", "i", "s", " ", "f", "a", "i", "l", "e", "d", ":", " ">>
S_ErrorReadingPdf == <<"E", "r", "r", "o", "r", " ", "r", "e", "a", "d", "i", "n", "g", " ", "P", "D", "F", ":", " ">>
S_PdfUnsupported == <<"P", "D", "F", " ", "s", "u", "p", "p", "o", "r", "t", " ", "n", "o", "t", " ", "a", "v", "a", "i", "l", "a", "b", "l", "e">>
S_DatePrefix == <<"2", "0", "2", "5", "-", "0", "1", "-", "0", "1", " ", "0", "0", ":", "0", "0", ":">>

(***************************************************************************)
(* Python values.                                                          *)
(***************************************************************************)
PyStr(s) == [t |-> "str", s |-> s, n |-> 0]
PyInt(n) == [t |-> "int", s |-> <<>>, n |-> n]
PyNone == [t |-> "null", s |-> <<>>, n |-> 0]

\* key in d
DictHas(d, k) == \E i \in 1..Len(d) : d[i][1] = k
\* d[key], for a key that is present
DictGet(d, k) == d[CHOOSE i \in 1..Len(d) : d[i][1] = k][2]
\* d[key] = v: a present key keeps its place, a new key goes last
DictSet(d, k, v) ==
    IF DictHas(d, k)
    THEN [i \in 1..Len(d) |-> IF d[i][1] = k THEN <<k, v>> ELSE d[i]]
    ELSE Append(d, <<k, v>>)

(***************************************************************************)
(* str methods.                                                            *)
(***************************************************************************)
UpperChars == <<"A", "B", "C", "D", "E", "F", "G", "H", "I", "J", "K", "L", "M",
                "N", "O", "P", "Q", "R", "S", "T", "U", "V", "W", "X", "Y", "Z">>
LowerChars == <<"a", "b", "c", "d", "e", "f", "g", "h", "i", "j", "k", "l", "m",
                "n", "o", "p", "q", "r", "s", "t", "u", "v", "w", "x", "y", "z">>
Whitespace == {" ", "\n", "\t", "\r"}

LowerChar(c) ==
    IF \E i \in 1..Len(UpperChars) : UpperChars[i] = c
    THEN LowerChars[CHOOSE i \in 1..Len(UpperChars) : UpperChars[i] = c]
    ELSE c
\* s.lower()
Lower(s) == [i \in 1..Len(s) |-> LowerChar(s[i])]
\* needle in hay
Contains(needle, hay) ==
    \E i \in 0..(Len(hay) - Len(needle)) :
        \A k \in 1..Len(needle) : hay[i + k] = needle[k]
\* bool(s.strip())
StripNonEmpty(s) == \E i \in 1..Len(s) : s[i] \notin Whitespace
\* s[:n]
Prefix(s, n) == IF Len(s) <= n THEN s ELSE SubSeq(s, 1, n)

Digits == <<"0", "1", "2", "3", "4", "5", "6", "7", "8", "9">>
IsDigit(c) == \E d \in 1..10 : Digits[d] = c
DigitVal(c) == (CHOOSE d \in 1..10 : Digits[d] = c) - 1

RECURSIVE NatToStr(_)
NatToStr(n) ==
    IF n < 10 THEN <<Digits[n + 1]>>
    ELSE Append(NatToStr(n \div 10), Digits[(n % 10) + 1])
\* str(n) of an int
IntToStr(n) == IF n < 0 THEN <<"-">> \o NatToStr(-n) ELSE NatToStr(n)

(***************************************************************************)
(* json.loads, restricted to the grammar the modelled texts use: objects   *)
(* and top-level arrays of objects whose values are strings, integers and  *)
(* null.  No modelled text holds a fraction, an exponent, true, false or   *)
(* a nested array.  A parse result is [ok, val, next]; ok = FALSE stands   *)
(* for the JSONDecodeError json.loads raises.                              *)
(***************************************************************************)
Fail == [ok |-> FALSE, val |-> <<>>, next |-> 0]
Done(v, i) == [ok |-> TRUE, val |-> v, next |-> i]

RECURSIVE SkipWs(_, _)
SkipWs(s, i) == IF i <= Len(s) /\ s[i] \in Whitespace THEN SkipWs(s, i + 1) ELSE i

Unescape(c) ==
    CASE c = "n" -> "\n"
      [] c = "t" -> "\t"
      [] c = "r" -> "\r"
      [] OTHER -> c

\* the first index >= i of a character of set T in s, 0 when there is none
RECURSIVE NextIn(_, _, _)
NextIn(s, i, T) ==
    IF i > Len(s) THEN 0
    ELSE LET hits == {j \in i..(i + 15) : j <= Len(s) /\ s[j] \in T}
         IN  IF hits # {} THEN CHOOSE j \in hits : \A k \in hits : j <= k
             ELSE NextIn(s, i + 16, T)

\* The string whose opening quote is before index i, read as py_scanstring
\* reads it: the chunk up to the next quote, backslash or control character,
\* then that character.  Strict mode refuses a raw control character.
RECURSIVE scanstring(_, _, _)
RECURSIVE scanstring_end(_, _, _, _)
scanstring(s, i, acc) == scanstring_end(s, i, acc, NextIn(s, i, {"\"", "\\", "\n", "\t", "\r"}))
scanstring_end(s, i, acc, e) ==
    IF e = 0 THEN Fail
    ELSE IF s[e] = "\"" THEN Done(acc \o SubSeq(s, i, e - 1), e + 1)
    ELSE IF s[e] # "\\" THEN Fail
    ELSE IF e + 1 <= Len(s) /\ s[e + 1] \in {"\"", "\\", "/", "n", "t", "r"}
         THEN scanstring(s, e + 2, (acc \o SubSeq(s, i, e - 1)) \o <<Unescape(s[e + 1])>>)
         ELSE Fail

RECURSIVE scandigits(_, _, _)
scandigits(s, i, acc) ==
    IF i <= Len(s) /\ IsDigit(s[i])
    THEN scandigits(s, i + 1, acc * 10 + DigitVal(s[i]))
    ELSE Done(acc, i)

\* -?(0|[1-9]\d*)
match_number(s, i) ==
    LET neg == i <= Len(s) /\ s[i] = "-"
        j == IF neg THEN i + 1 ELSE i
    IN  IF j > Len(s) \/ ~IsDigit(s[j]) THEN Fail
        ELSE LET r == IF s[j] = "0" THEN Done(0, j + 1) ELSE scandigits(s, j, 0)
             IN  Done(PyInt(IF neg THEN 0 - r.val ELSE r.val), r.next)

\* one value of an object.  A nested object is refused: extract_json's match
\* holds a single "}", so an object inside it can never be closed, and no
\* record of the history holds a dict.
scan_once(s, i) ==
    IF i > Len(s) THEN Fail
    ELSE IF s[i] = "\""
         THEN LET r == scanstring(s, i + 1, <<>>)
              IN  IF r.ok THEN Done(PyStr(r.val), r.next) ELSE Fail
    ELSE IF s[i] = "n"
         THEN IF i + 3 <= Len(s) /\ SubSeq(s, i, i + 3) = <<"n", "u", "l", "l">>
              THEN Done(PyNone, i + 4)
              ELSE Fail
    ELSE IF s[i] = "-" \/ IsDigit(s[i]) THEN match_number(s, i)
    ELSE Fail

\* The pairs of an object, i at the opening quote of the next key.  Each step
\* of the loop is an operator of its own: the key, the colon, the value, then
\* "," or "}".
RECURSIVE JSONPairs(_, _, _)
RECURSIVE PairKey(_, _, _)
RECURSIVE PairColon(_, _, _, _)
RECURSIVE PairValue(_, _, _, _)
RECURSIVE PairEnd(_, _, _)
JSONPairs(s, i, acc) ==
    IF i > Len(s) \/ s[i] # "\"" THEN Fail
    ELSE PairKey(s, acc, scanstring(s, i + 1, <<>>))
PairKey(s, acc, k) ==
    IF ~k.ok THEN Fail ELSE PairColon(s, acc, k.val, SkipWs(s, k.next))
PairColon(s, acc, key, c) ==
    IF c > Len(s) \/ s[c] # ":" THEN Fail
    ELSE PairValue(s, acc, key, scan_once(s, SkipWs(s, c + 1)))
PairValue(s, acc, key, v) ==
    IF ~v.ok THEN Fail ELSE PairEnd(s, DictSet(acc, key, v.val), SkipWs(s, v.next))
PairEnd(s, acc, d) ==
    IF d > Len(s) THEN Fail
    ELSE IF s[d] = "}" THEN Done(acc, d + 1)
    ELSE IF s[d] = "," THEN JSONPairs(s, SkipWs(s, d + 1), acc)
    ELSE Fail

\* the object whose "{" is before index i
JSONObject(s, i) ==
    LET j == SkipWs(s, i)
    IN  IF j <= Len(s) /\ s[j] = "}" THEN Done(<<>>, j + 1) ELSE JSONPairs(s, j, <<>>)

\* the items of an array of objects, i at the start of the next item
RECURSIVE JSONItems(_, _, _)
RECURSIVE ItemObject(_, _, _)
RECURSIVE ItemEnd(_, _, _)
JSONItems(s, i, acc) ==
    IF i > Len(s) \/ s[i] # "{" THEN Fail
    ELSE ItemObject(s, acc, JSONObject(s, i + 1))
ItemObject(s, acc, o) ==
    IF ~o.ok THEN Fail ELSE ItemEnd(s, Append(acc, o.val), SkipWs(s, o.next))
ItemEnd(s, acc, d) ==
    IF d > Len(s) THEN Fail
    ELSE IF s[d] = "]" THEN Done(acc, d + 1)
    ELSE IF s[d] = "," THEN JSONItems(s, SkipWs(s, d + 1), acc)
    ELSE Fail

\* the array whose "[" is before index i
JSONArray(s, i) ==
    LET j == SkipWs(s, i)
    IN  IF j <= Len(s) /\ s[j] = "]" THEN Done(<<>>, j + 1) ELSE JSONItems(s, j, <<>>)

\* the document that starts at index j
LoadsValue(s, j) ==
    IF j > Len(s) THEN Fail
    ELSE IF s[j] = "{" THEN JSONObject(s, j + 1)
    ELSE IF s[j] = "[" THEN JSONArray(s, j + 1)
    ELSE scan_once(s, j)
\* after the document nothing but whitespace may follow ("Extra data")
LoadsEnd(s, v) == IF v.ok /\ SkipWs(s, v.next) = Len(s) + 1 THEN v ELSE Fail
\* json.loads(s)
json_loads(s) == LoadsEnd(s, LoadsValue(s, SkipWs(s, 1)))

(***************************************************************************)
(* json.dumps(obj, indent=2, ensure_ascii=False)                           *)
(***************************************************************************)
EscapeChar(c) ==
    CASE c = "\"" -> <<"\\", "\"">>
      [] c = "\\" -> <<"\\", "\\">>
      [] c = "\n" -> <<"\\", "n">>
      [] c = "\t" -> <<"\\", "t">>
      [] c = "\r" -> <<"\\", "r">>
      [] OTHER -> <<c>>

\* ESCAPE.sub(replace, s): the chunk up to the next character that needs an
\* escape, then its escape
RECURSIVE EscapeFrom(_, _)
RECURSIVE EscapeAt(_, _, _)
EscapeFrom(s, i) == EscapeAt(s, i, NextIn(s, i, {"\"", "\\", "\n", "\t", "\r"}))
EscapeAt(s, i, e) ==
    IF e = 0 THEN SubSeq(s, i, Len(s))
    ELSE (SubSeq(s, i, e - 1) \o EscapeChar(s[e])) \o EscapeFrom(s, e + 1)

encode_basestring(s) == <<"\"">> \o EscapeFrom(s, 1) \o <<"\"">>

dumps_scalar(v) ==
    CASE v.t = "str" -> encode_basestring(v.s)
      [] v.t = "int" -> IntToStr(v.n)
      [] OTHER -> <<"n", "u", "l", "l">>

Indent(k) == [i \in 1..k |-> " "]

RECURSIVE dumps_pairs(_, _)
dumps_pairs(d, i) ==
    LET item == <<"\n">> \o Indent(4) \o encode_basestring(d[i][1]) \o <<":", " ">>
                \o dumps_scalar(d[i][2])
    IN  IF i = Len(d) THEN item ELSE item \o <<",">> \o dumps_pairs(d, i + 1)

\* a dict, as an item of the top-level list
dumps_dict(d) ==
    IF d = <<>> THEN <<"{", "}">>
    ELSE <<"{">> \o dumps_pairs(d, 1) \o <<"\n">> \o Indent(2) \o <<"}">>

RECURSIVE dumps_items(_, _)
dumps_items(l, i) ==
    LET item == <<"\n">> \o Indent(2) \o dumps_dict(l[i])
    IN  IF i = Len(l) THEN item ELSE item \o <<",">> \o dumps_items(l, i + 1)

\* json.dumps of a list of dicts
json_dumps(l) ==
    IF l = <<>> THEN <<"[", "]">>
    ELSE <<"[">> \o dumps_items(l, 1) \o <<"\n", "]">>

(***************************************************************************)
(* extract_json and analyze_news                                           *)
(***************************************************************************)
\* re.search(r'\{.*?\}', text, re.DOTALL): the leftmost "{" and the first "}"
\* after it; <<>> stands for None (a match is never empty)
extract_json(text) ==
    LET a == NextIn(text, 1, {"{"})
        b == IF a = 0 THEN 0 ELSE NextIn(text, a + 1, {"}"})
    IN  IF a = 0 \/ b = 0 THEN <<>> ELSE SubSeq(text, a, b)

RequiredKeys == {K_verdict, K_reason, K_credibility_score}

ErrorResult(msg) == <<<<K_error, PyStr(msg)>>>>
InvalidFormat(raw) == <<<<K_error, PyStr(S_InvalidFormat)>>, <<K_raw, PyStr(raw)>>>>

\* lines 177-182, parsed being what json.loads gave: a JSONDecodeError is
\* caught at line 184
analyze_news_validate(raw, parsed) ==
    IF ~parsed.ok THEN ErrorResult(S_AnalysisFailed \o <<"j", "s", "o", "n">>)
    ELSE IF \A k \in RequiredKeys : DictHas(parsed.val, k) THEN parsed.val
    ELSE InvalidFormat(raw)

\* lines 175-182
analyze_news_parse(raw, json_str) ==
    IF json_str = <<>> THEN InvalidFormat(raw)
    ELSE analyze_news_validate(raw, json_loads(json_str))

\* analyze_news(text), given what model.generate_content(...).text does:
\* reply.exc is TRUE when the call raises, reply.text is the reply otherwise
analyze_news(api_key, reply) ==
    IF ~api_key THEN ErrorResult(S_NoApiKey)
    ELSE IF reply.exc THEN ErrorResult(S_AnalysisFailed \o reply.text)
    ELSE analyze_news_parse(reply.text, extract_json(reply.text))

(***************************************************************************)
(* Small helpers of page_detector                                          *)
(***************************************************************************)
ExcerptLen == 300

\* int(v) as page_detector applies it to the score: ok = FALSE stands for the
\* TypeError (None) or ValueError (a str that is no integer literal) it raises.
\* No modelled score holds blanks or underscores, which int() would accept.
py_int(v) ==
    CASE v.t = "int" -> [ok |-> TRUE, n |-> v.n]
      [] v.t = "str" ->
           LET neg == Len(v.s) > 0 /\ v.s[1] = "-"
               body == IF neg \/ (Len(v.s) > 0 /\ v.s[1] = "+") THEN Tail(v.s) ELSE v.s
               val == scandigits(body, 1, 0)
           IN  IF body # <<>> /\ val.next = Len(body) + 1
               THEN [ok |-> TRUE, n |-> IF neg THEN 0 - val.val ELSE val.val]
               ELSE [ok |-> FALSE, n |-> 0]
      [] OTHER -> [ok |-> FALSE, n |-> 0]

\* verdict_style(verdict): the label; verdict.lower() needs a str
verdict_style(verdict) ==
    LET v == Lower(verdict.s)
    IN  IF v = S_fake THEN S_Fake ELSE IF v = S_real THEN S_Real ELSE S_Uncertain

\* The display of a result raises before the record is appended: an
\* AttributeError in verdict_style for a verdict that is no str, int()'s error,
\* or st.progress refusing a value outside 0.0..1.0
DisplayRaises(result) ==
    LET verdict == DictGet(result, K_verdict)
        score == py_int(DictGet(result, K_credibility_score))
    IN  \/ verdict.t # "str"
        \/ ~score.ok
        \/ score.n < 0
        \/ score.n > 100

\* datetime.now().strftime("%Y-%m-%d %H:%M:%S"), the clock counting seconds
strftime(now) == S_DatePrefix \o <<Digits[(now \div 10) + 1], Digits[(now % 10) + 1]>>

\* the dict page_detector appends to the history
NewRecord(current_text, result, now, lang) ==
    << <<K_text, PyStr(Prefix(current_text, ExcerptLen)
                       \o (IF Len(current_text) > ExcerptLen THEN S_Ellipsis ELSE <<>>))>>,
       <<K_full_text, PyStr(current_text)>>,
       <<K_verdict, DictGet(result, K_verdict)>>,
       <<K_reason, DictGet(result, K_reason)>>,
       <<K_score, DictGet(result, K_credibility_score)>>,
       <<K_timestamp, PyStr(strftime(now))>>,
       <<K_language, PyStr(lang)>>,
       <<K_model, PyStr(S_GeminiFlash)>> >>

(***************************************************************************)
(* The inputs the environment offers.                                      *)
(***************************************************************************)
Pages == {"Home", "Detector", "Dashboard", "History", "Export"}
Languages == {S_English, S_Hindi}
VerdictFilters == {S_All, S_Fake, S_Real, S_Uncertain}

\* what the user may type in the text area
T_News == <<"N", "\"", "w">>
PastedTexts == {<<>>, <<" ">>, T_News}

\* the uploaded PDF files and what fitz extracts from each
PdfFiles == {"plain", "errword", "corrupt"}
T_PdfPlain == <<"P", "d", "f">>
T_PdfErrWord == <<"E", "r", "r", "o", "r", " ", "5">>
T_PdfException == <<"b", "a", "d">>

\* the URL the user may type and the article text behind it
U_Article == <<"u">>
T_Article == <<"U", "r", "l">>
SearchTerms == {<<>>, <<"p", "D">>}

Q(s) == <<"\"">> \o s \o <<"\"">>
\* the text of a JSON object with the three keys, given the texts of its values
ObjText(v, r, c) ==
    <<"{">> \o Q(K_verdict) \o <<":", " ">> \o v \o <<",", " ">>
            \o Q(K_reason) \o <<":", " ">> \o r \o <<",", " ">>
            \o Q(K_credibility_score) \o <<":", " ">> \o c \o <<"}">>

J_x == Q(<<"x">>)
R_Fake == ObjText(Q(S_Fake), J_x, <<"1", "0">>)
R_Real == ObjText(Q(S_Real), Q(<<"a", "\\", "\"", "b">>), <<"9", "0">>)
R_Maybe == ObjText(Q(<<"M", "a", "y", "b", "e">>), J_x, Q(<<"5", "0">>))
R_Score150 == ObjText(Q(S_Fake), J_x, <<"1", "5", "0">>)
R_NullVerdict == ObjText(<<"n", "u", "l", "l">>, J_x, <<"1", "0">>)
R_BraceInReason == ObjText(Q(S_Fake), Q(<<"a", "}", "b">>), <<"1", "0">>)
R_OnlyVerdict == <<"{">> \o Q(K_verdict) \o <<":">> \o Q(S_Fake) \o <<"}">>
P_Plain == <<"o", "k", "\n">>
P_Braces == <<"{", "n", "}", " ">>
X_End == <<" ", "e", "n", "d">>

\* the replies of the model: response.text, or an exception of the call
ReplyTexts ==
    { R_Fake, P_Plain \o R_Fake \o X_End, R_Maybe, R_Score150, R_NullVerdict,
      R_BraceInReason, R_OnlyVerdict, P_Braces \o R_Fake, <<"n", "o">> }
Replies ==
    {[exc |-> FALSE, text |-> t] : t \in ReplyTexts}
        \cup {[exc |-> TRUE, text |-> <<"a", "p", "i">>]}
NoReply == [exc |-> TRUE, text |-> <<>>]

(***************************************************************************)
(* State                                                                   *)
(***************************************************************************)
VARIABLES
    API_KEY,          \* whether a key was found (lines 32-47)
    PDF_SUPPORT,      \* whether fitz was imported
    URL_SUPPORT,      \* whether newspaper was imported
    page,             \* st.session_state.page
    history,          \* st.session_state.history
    language,         \* st.session_state.language
    input_method,     \* st.session_state.input_method
    url,              \* st.session_state.url
    text_area,        \* the value of the text area while it is on screen
    uploaded_file,    \* the file in the uploader while it is on screen
    search_term,      \* the History page's search box
    verdict_filter,   \* the History page's select box
    confirm_shown,    \* whether "Confirm Clear All" is on screen
    clock,            \* datetime.now(), in seconds
    event,            \* the user action that started the last run
    input_msg,        \* what the last run reported about the PDF or the URL
    analysis_msg,     \* what the last run reported about the analysis
    sent,             \* the text the last run passed to analyze_news, <<>> if none
    raw_text,         \* the reply of the model in the last run
    result            \* what analyze_news returned in the last run

vars == <<API_KEY, PDF_SUPPORT, URL_SUPPORT, page, history, language,
          input_method, url, text_area, uploaded_file, search_term, verdict_filter,
          confirm_shown, clock, event, input_msg, analysis_msg, sent, raw_text, result>>

env == <<API_KEY, PDF_SUPPORT, URL_SUPPORT>>

\* init_session, after the module level found a key (without one the script
\* stops at line 61 and no page is ever rendered)
init_session ==
    /\ page = "Home"
    /\ history = <<>>
    /\ language = S_English
    /\ input_method = "Paste Text"
    /\ url = <<>>

Init ==
    /\ API_KEY \in BOOLEAN
    /\ PDF_SUPPORT \in BOOLEAN
    /\ URL_SUPPORT \in BOOLEAN
    /\ init_session
    /\ text_area = <<>>
    /\ uploaded_file = "none"
    /\ search_term = <<>>
    /\ verdict_filter = S_All
    /\ confirm_shown = FALSE
    /\ clock = 0
    /\ event = [name |-> "start", arg |-> 0]
    /\ input_msg = "none"
    /\ analysis_msg = "none"
    /\ sent = <<>>
    /\ raw_text = <<>>
    /\ result = <<>>

(***************************************************************************)
(* read_pdf and the pages                                                  *)
(***************************************************************************)
\* read_pdf(file): the extracted text, or the message of the failure
read_pdf(file) ==
    IF ~PDF_SUPPORT THEN S_PdfUnsupported
    ELSE CASE file = "plain" -> T_PdfPlain
           [] file = "errword" -> T_PdfErrWord
           [] OTHER -> S_ErrorReadingPdf \o T_PdfException

InputOptions ==
    {"Paste Text"} \cup (IF PDF_SUPPORT THEN {"Upload PDF"} ELSE {})
                   \cup (IF URL_SUPPORT THEN {"Enter URL"} ELSE {})

NoAnalysis ==
    /\ analysis_msg' = "none"
    /\ sent' = <<>>
    /\ raw_text' = <<>>
    /\ result' = <<>>

\* lines 331-364: the result is shown and saved
page_detector_result(cur, reply, res, now) ==
    /\ sent' = cur
    /\ raw_text' = IF reply.exc THEN <<>> ELSE reply.text
    /\ result' = res
    /\ IF DictHas(res, K_error)
       THEN analysis_msg' = "error" /\ UNCHANGED <<history, clock>>
       ELSE IF DisplayRaises(res)
            THEN analysis_msg' = "exception" /\ UNCHANGED <<history, clock>>
            ELSE /\ analysis_msg' = "result"
                 /\ history' = Append(history, NewRecord(cur, res, now, language'))
                 /\ clock' = now

\* lines 323-364: the "Analyze News" button
page_detector_analysis(cur, analyze, reply, now) ==
    IF ~analyze THEN NoAnalysis /\ UNCHANGED <<history, clock>>
    ELSE IF ~StripNonEmpty(cur)
         THEN /\ analysis_msg' = "warning"
              /\ sent' = <<>> /\ raw_text' = <<>> /\ result' = <<>>
              /\ UNCHANGED <<history, clock>>
         ELSE page_detector_result(cur, reply, analyze_news(API_KEY, reply), now)

\* lines 268-309: current_text
page_detector_input(method, ta, file, u, fetch, fetched) ==
    CASE method = "Paste Text" -> ta
      [] method = "Upload PDF" /\ PDF_SUPPORT -> IF file = "none" THEN <<>> ELSE read_pdf(file)
      [] method = "Enter URL" /\ URL_SUPPORT -> IF u # <<>> /\ fetch THEN fetched ELSE <<>>
      [] OTHER -> <<>>

\* One run of page_detector.  method, ta, file and u are the values of the
\* widgets in this run; fetched is what read_url returns when "Fetch Article"
\* was pressed (<<>> for None or an empty article); reply and now are what the
\* model and the clock give when "Analyze News" was pressed.
\* st.session_state.current_text is written and never read: sent keeps the
\* text a run passes on.
page_detector(method, ta, file, u, fetch, fetched, analyze, reply, now) ==
    /\ input_method' = method
    /\ text_area' = IF method = "Paste Text" THEN ta ELSE <<>>
    /\ uploaded_file' = IF method = "Upload PDF" /\ PDF_SUPPORT THEN file ELSE "none"
    /\ url' = IF method = "Enter URL" /\ URL_SUPPORT THEN u ELSE url
    /\ input_msg' =
         CASE method = "Upload PDF" /\ PDF_SUPPORT /\ file # "none" ->
                IF ~Contains(S_Error, read_pdf(file)) THEN "pdf_success" ELSE "pdf_error"
           [] method = "Enter URL" /\ URL_SUPPORT /\ u # <<>> /\ fetch ->
                IF fetched # <<>> THEN "fetch_success" ELSE "fetch_error"
           [] OTHER -> "none"
    /\ page_detector_analysis(page_detector_input(method, ta, file, u, fetch, fetched),
                              analyze, reply, now)
    /\ search_term' = <<>>
    /\ verdict_filter' = S_All
    /\ confirm_shown' = FALSE

DetectorOffScreen ==
    /\ text_area' = <<>>
    /\ uploaded_file' = "none"
    /\ input_msg' = "none"
    /\ NoAnalysis
    /\ UNCHANGED <<input_method, url, clock>>

\* reversed(l)
Reversed(l) == [i \in 1..Len(l) |-> l[Len(l) + 1 - i]]

\* line 415 without the two lower() calls: a case-sensitive search
FilterSearch_CaseSensitive(h, term) ==
    IF term # <<>>
    THEN SelectSeq(h, LAMBDA r : Contains(term, DictGet(r, K_text).s))
    ELSE h

\* the History page's filter: filtered_history
FilterSearch(h, term) ==
    IF term # <<>>
    THEN SelectSeq(h, LAMBDA r : Contains(Lower(term), Lower(DictGet(r, K_text).s)))
    ELSE h
FilterVerdict(h, vf) ==
    IF vf # S_All
    THEN SelectSeq(h, LAMBDA r : DictGet(r, K_verdict) = PyStr(vf))
    ELSE h
filtered_history(h, term, vf) == FilterVerdict(FilterSearch(h, term), vf)

\* the Delete button's loop: the first record with the entry's timestamp goes,
\* and st.rerun() ends the loop
DeleteEntry(h, entry) ==
    LET hit == {j \in 1..Len(h) : DictGet(h[j], K_timestamp) = DictGet(entry, K_timestamp)}
    IN  IF hit = {} THEN h
        ELSE LET j == CHOOSE x \in hit : \A y \in hit : x <= y
             IN  SubSeq(h, 1, j - 1) \o SubSeq(h, j + 1, Len(h))

\* One run of page_history with history h: an empty history returns before the
\* widgets are drawn
page_history(h, term, vf) ==
    /\ history' = h
    /\ search_term' = IF h = <<>> THEN <<>> ELSE term
    /\ verdict_filter' = IF h = <<>> THEN S_All ELSE vf
    /\ confirm_shown' = FALSE
    /\ DetectorOffScreen

\* line 475 dumping the entries newest first, as the History page lists them
json_data_NewestFirst(h) == json_dumps(Reversed(h))

\* line 475: json_data, the text of the JSON download
json_data(h) == json_dumps(h)

\* One run of page_export: "Confirm Clear All" is drawn only inside the run in
\* which "Clear All History" returned True, and is read only there
page_export(clear, confirm) ==
    /\ IF history # <<>> /\ clear /\ confirm
       THEN history' = <<>>
       ELSE UNCHANGED history
    /\ confirm_shown' = (history # <<>> /\ clear /\ ~confirm)
    /\ search_term' = <<>>
    /\ verdict_filter' = S_All
    /\ DetectorOffScreen

\* page_home and page_dashboard write nothing
page_plain ==
    /\ UNCHANGED history
    /\ search_term' = <<>>
    /\ verdict_filter' = S_All
    /\ confirm_shown' = FALSE
    /\ DetectorOffScreen

\* main()'s routing, for a run in which no widget of the page was touched
Route(p) ==
    CASE p = "Detector" ->
           page_detector(input_method, text_area, uploaded_file, url,
                         FALSE, <<>>, FALSE, NoReply, clock)
      [] p = "History" -> page_history(history, search_term, verdict_filter)
      [] p = "Export" -> page_export(FALSE, FALSE)
      [] OTHER -> page_plain

Ev(name, arg) == event' = [name |-> name, arg |-> arg]

(***************************************************************************)
(* The user's actions.  Without an API key the script stops before main(). *)
(***************************************************************************)
\* a navigation button of the sidebar
PressNav(p) ==
    /\ API_KEY
    /\ page' = p
    /\ Ev("other", 0)
    /\ UNCHANGED <<env, language>>
    /\ Route(p)

\* the sidebar's language select box
SelectLanguage(l) ==
    /\ API_KEY
    /\ l # language
    /\ language' = l
    /\ Ev("other", 0)
    /\ UNCHANGED <<env, page>>
    /\ Route(page)

OnDetector == API_KEY /\ page = "Detector"

SelectInputMethod(m) ==
    /\ OnDetector
    /\ m \in InputOptions /\ m # input_method
    /\ Ev("other", 0)
    /\ UNCHANGED <<env, page, language>>
    /\ page_detector(m, <<>>, "none", url, FALSE, <<>>, FALSE, NoReply, clock)

EditText(t) ==
    /\ OnDetector
    /\ input_method = "Paste Text" /\ t # text_area
    /\ Ev("other", 0)
    /\ UNCHANGED <<env, page, language>>
    /\ page_detector(input_method, t, "none", url, FALSE, <<>>, FALSE, NoReply, clock)

UploadFile(f) ==
    /\ OnDetector
    /\ input_method = "Upload PDF" /\ PDF_SUPPORT /\ f # uploaded_file
    /\ Ev("other", 0)
    /\ UNCHANGED <<env, page, language>>
    /\ page_detector(input_method, <<>>, f, url, FALSE, <<>>, FALSE, NoReply, clock)

EditUrl(u) ==
    /\ OnDetector
    /\ input_method = "Enter URL" /\ URL_SUPPORT /\ u # url
    /\ Ev("other", 0)
    /\ UNCHANGED <<env, page, language>>
    /\ page_detector(input_method, <<>>, "none", u, FALSE, <<>>, FALSE, NoReply, clock)

\* "Fetch Article" is drawn only for a non-empty URL
PressFetch(fetched) ==
    /\ OnDetector
    /\ input_method = "Enter URL" /\ URL_SUPPORT /\ url # <<>>
    /\ Ev("fetch", 0)
    /\ UNCHANGED <<env, page, language>>
    /\ page_detector(input_method, <<>>, "none", url, TRUE, fetched, FALSE, NoReply, clock)

PressAnalyze(reply, now) ==
    /\ OnDetector
    /\ Len(history) < MaxHistory
    /\ Ev("analyze", 0)
    /\ UNCHANGED <<env, page, language>>
    /\ page_detector(input_method, text_area, uploaded_file, url,
                     FALSE, <<>>, TRUE, reply, now)

OnHistory == API_KEY /\ page = "History" /\ history # <<>>

EditSearch(term) ==
    /\ OnHistory
    /\ term # search_term
    /\ Ev("other", 0)
    /\ UNCHANGED <<env, page, language>>
    /\ page_history(history, term, verdict_filter)

SelectFilter(vf) ==
    /\ OnHistory
    /\ vf # verdict_filter
    /\ Ev("other", 0)
    /\ UNCHANGED <<env, page, language>>
    /\ page_history(history, search_term, vf)

\* the Delete button of the i-th entry on screen, then the rerun
PressDelete(i) ==
    /\ OnHistory
    /\ i \in 1..Len(filtered_history(history, search_term, verdict_filter))
    /\ Ev("delete", i)
    /\ UNCHANGED <<env, page, language>>
    /\ LET shown == Reversed(filtered_history(history, search_term, verdict_filter))
       IN  page_history(DeleteEntry(history, shown[i]), search_term, verdict_filter)

OnExport == API_KEY /\ page = "Export" /\ history # <<>>

PressClearAll ==
    /\ OnExport
    /\ Ev("clear_all", 0)
    /\ UNCHANGED <<env, page, language>>
    /\ page_export(TRUE, FALSE)

\* "Confirm Clear All" can be pressed while it is on screen; in the run this
\* starts, "Clear All History" returns False
PressConfirm ==
    /\ OnExport
    /\ confirm_shown
    /\ Ev("confirm_clear", 0)
    /\ UNCHANGED <<env, page, language>>
    /\ page_export(FALSE, TRUE)

Next ==
    \/ \E p \in Pages : PressNav(p)
    \/ \E l \in Languages : SelectLanguage(l)
    \/ \E m \in InputOptions : SelectInputMethod(m)
    \/ \E t \in PastedTexts : EditText(t)
    \/ \E f \in PdfFiles \cup {"none"} : UploadFile(f)
    \/ \E u \in {<<>>, U_Article} : EditUrl(u)
    \/ \E fetched \in {<<>>, T_Article} : PressFetch(fetched)
    \/ \E reply \in Replies, now \in clock..MaxClock : PressAnalyze(reply, now)
    \/ \E term \in SearchTerms : EditSearch(term)
    \/ \E vf \in VerdictFilters : SelectFilter(vf)
    \/ \E i \in 1..MaxHistory : PressDelete(i)
    \/ PressClearAll
    \/ PressConfirm

Spec == Init /\ [][Next]_vars

(***************************************************************************)
(* The store on its own: the History and Export pages over histories that  *)
(* page_detector can have built.  Each record is NewRecord of a text the   *)
(* user can submit and of what analyze_news returns for a reply; the       *)
(* timestamps of a history never decrease.                                 *)
(***************************************************************************)
T_Long ==
    [i \in 1..(ExcerptLen + 1) |->
        IF i = ExcerptLen THEN "\"" ELSE IF i % 100 = 0 THEN "\n" ELSE "a"]

StoreSamples ==
    { [text |-> T_News, reply |-> R_Fake, lang |-> S_English],
      [text |-> T_PdfErrWord, reply |-> P_Plain \o R_Real \o X_End, lang |-> S_Hindi],
      [text |-> T_Long, reply |-> R_Maybe, lang |-> S_English] }

StoreRecord(x, now) ==
    NewRecord(x.text, analyze_news(TRUE, [exc |-> FALSE, text |-> x.reply]), now, x.lang)

StoreHistories ==
    UNION { { [i \in 1..n |-> StoreRecord(f[i][1], f[i][2])] :
                f \in { g \in [1..n -> StoreSamples \X (0..MaxClock)] :
                          \A i \in 1..(n - 1) : g[i][2] <= g[i + 1][2] } } :
            n \in 0..MaxHistory }

InitStore ==
    /\ API_KEY = TRUE
    /\ PDF_SUPPORT = TRUE
    /\ URL_SUPPORT = TRUE
    /\ page = "History"
    /\ history \in StoreHistories
    /\ language = S_English
    /\ input_method = "Paste Text"
    /\ url = <<>>
    /\ text_area = <<>>
    /\ uploaded_file = "none"
    /\ search_term = <<>>
    /\ verdict_filter = S_All
    /\ confirm_shown = FALSE
    /\ clock = MaxClock
    /\ event = [name |-> "start", arg |-> 0]
    /\ input_msg = "none"
    /\ analysis_msg = "none"
    /\ sent = <<>>
    /\ raw_text = <<>>
    /\ result = <<>>

StoreSearchTerms == {<<>>, <<"p", "D">>, <<"E", "R", "R">>, <<"A", "a">>, <<"\"">>}

NextStore ==
    \/ \E p \in {"History", "Export"} : PressNav(p)
    \/ \E term \in StoreSearchTerms : EditSearch(term)
    \/ \E vf \in VerdictFilters : SelectFilter(vf)
    \/ \E i \in 1..MaxHistory : PressDelete(i)
    \/ PressClearAll
    \/ PressConfirm

SpecStore == InitStore /\ [][NextStore]_vars

(***************************************************************************)
(* Properties                                                              *)
(***************************************************************************)
\* the record history[i] passes the History page's search and filter
Matches(r, term, vf) ==
    /\ term = <<>> \/ Contains(Lower(term), Lower(DictGet(r, K_text).s))
    /\ vf = S_All \/ DictGet(r, K_verdict) = PyStr(vf)

\* the indices of the history's records that match, and the k-th smallest
MatchingIndices == {i \in 1..Len(history) : Matches(history[i], search_term, verdict_filter)}
KthIndex(idx, k) == CHOOSE i \in idx : Cardinality({j \in idx : j < i}) = k - 1

RemoveAt(h, j) == SubSeq(h, 1, j - 1) \o SubSeq(h, j + 1, Len(h))

AnalyzeStep == event'.name = "analyze"
Analyzed == event.name = "analyze" /\ sent # <<>>

\* C1: a press of "Analyze News" whose analyze_news result has no error
\* appends exactly one record at the end of the history and keeps the earlier
\* records; a press whose result is an error, or whose text is blank, appends
\* nothing.
C1_AppendExactlyOnce ==
    [][AnalyzeStep =>
         IF sent' # <<>> /\ ~DictHas(result', K_error)
         THEN /\ Len(history') = Len(history) + 1
              /\ SubSeq(history', 1, Len(history)) = history
         ELSE history' = history]_vars

\* C2: whatever the model does, a press of "Analyze News" that reaches the
\* model ends without an uncaught exception: it shows a labelled error and
\* leaves the history alone, or shows the result and appends a record.
C2_NoUncaughtException ==
    [][(AnalyzeStep /\ sent' # <<>>) =>
         \/ analysis_msg' = "error" /\ history' = history
         \/ analysis_msg' = "result" /\ Len(history') = Len(history) + 1]_vars

\* the objects with the three keys that the text holds: <<from, to>>
EmbeddedObjects(text) ==
    { ij \in (1..Len(text)) \X (1..Len(text)) :
        /\ ij[1] < ij[2]
        /\ text[ij[1]] = "{" /\ text[ij[2]] = "}"
        /\ LET o == json_loads(SubSeq(text, ij[1], ij[2]))
           IN  o.ok /\ \A k \in RequiredKeys : DictHas(o.val, k) }

\* C3: when the reply holds a JSON object with the keys verdict, reason and
\* credibility_score, with any text before and after it, analyze_news returns
\* exactly that object; when the reply holds no "{...}", extract_json returns
\* None and analyze_news returns an error.
C3_ExtractsEmbeddedObject ==
    Analyzed /\ analysis_msg # "warning" /\ raw_text # <<>> =>
        /\ \A ij \in EmbeddedObjects(raw_text) :
               result = json_loads(SubSeq(raw_text, ij[1], ij[2])).val
        /\ (NextIn(raw_text, 1, {"{"}) = 0 \/ NextIn(raw_text, 1, {"}"}) = 0) =>
               extract_json(raw_text) = <<>> /\ DictHas(result, K_error)

\* C4: text that was pasted, extracted from a PDF or fetched from a URL is what
\* the next press of "Analyze News" passes to analyze_news.
C4_SubmittedTextIsAnalyzed ==
    [][AnalyzeStep =>
         /\ (input_method = "Paste Text" /\ StripNonEmpty(text_area)) => sent' = text_area
         /\ input_msg = "pdf_success" => sent' = read_pdf(uploaded_file)
         /\ input_msg = "fetch_success" => sent' = T_Article]_vars

\* C5: every record of the history has a verdict among Fake, Real and Uncertain
\* and an integer score in 0..100.
C5_RecordsWellFormed ==
    \A i \in 1..Len(history) :
        /\ DictGet(history[i], K_verdict) \in {PyStr(S_Fake), PyStr(S_Real), PyStr(S_Uncertain)}
        /\ DictGet(history[i], K_score).t = "int"
        /\ DictGet(history[i], K_score).n \in 0..100

\* C6: pressing "Clear All History" and then "Confirm Clear All" empties the
\* history, and a history of several records is emptied in no other way.
C6_ConfirmClears ==
    [][/\ event'.name = "confirm_clear" => history' = <<>>
       /\ (Len(history) >= 2 /\ history' = <<>>) => event'.name = "confirm_clear"]_vars

\* C7: the filtered list of the History page holds exactly the matching
\* records of the history, each once and in the history's order; with no
\* search term and the filter "All" it is the whole history.
C7_FilterIsSubsequence ==
    LET shown == filtered_history(history, search_term, verdict_filter)
    IN  /\ Len(shown) = Cardinality(MatchingIndices)
        /\ \A k \in 1..Len(shown) : shown[k] = history[KthIndex(MatchingIndices, k)]
        /\ (search_term = <<>> /\ verdict_filter = S_All) => shown = history

C7_Witness ==
    /\ page = "History"
    /\ search_term # <<>>
    /\ verdict_filter # S_All
    /\ Len(history) >= 2
    /\ Len(filtered_history(history, search_term, verdict_filter)) = 1
    /\ Len(filtered_history(history, search_term, S_All)) = 2

\* C8: parsing the JSON text of the Export page gives back the history: the
\* same records, in the same order, with the same values.
C8_ExportRoundTrip ==
    (page = "Export" /\ history # <<>>) =>
        LET back == json_loads(json_data(history))
        IN  back.ok /\ back.val = history

C8_Witness ==
    /\ page = "Export"
    /\ Len(history) >= 2
    /\ history[1] # history[2]
    /\ \E i \in 1..Len(history) : Contains(<<"\"">>, DictGet(history[i], K_full_text).s)
    /\ \E i \in 1..Len(history) : DictGet(history[i], K_score).t = "str"
    /\ json_loads(json_data(history)).ok

\* C9: "Delete" on an entry of the History page removes that entry and no
\* other: the i-th entry on screen is the i-th matching record from the end.
C9_DeleteRemovesChosen ==
    [][event'.name = "delete" =>
         history' = RemoveAt(history,
                             KthIndex(MatchingIndices,
                                      Cardinality(MatchingIndices) + 1 - event'.arg))]_vars

\* C10: the message of a failed PDF extraction is shown as an error and is
\* neither passed to analyze_news nor saved as a record's full text, and the
\* text of a PDF that was read is not reported as an error.
C10_PdfFailureNotAnalyzed ==
    LET failure == S_ErrorReadingPdf \o T_PdfException
    IN  /\ uploaded_file = "corrupt" => input_msg = "pdf_error" /\ sent # failure
        /\ \A i \in 1..Len(history) : DictGet(history[i], K_full_text).s # failure
        /\ uploaded_file \in {"plain", "errword"} => input_msg # "pdf_error"
=============================================================================
